---- MODULE Spec2Model ----
(***************************************************************************)
(* Model of the hypercomplex library: the quaternion algebra, the key      *)
(* derivation, the checksum and the container codec of src/Arm.h, driven   *)
(* by a caller that generates a key, encodes a plaintext, may change one   *)
(* byte of the container and decodes it (src/Arm.c).                       *)
(*                                                                         *)
(* Representation choices                                                  *)
(*  - A byte is a number in 0..255; a uint32_t is a record [hi, lo] of its  *)
(*    two 16-bit halves (TLC's integers are narrower than 2^32).           *)
(*  - size_t arithmetic is carried out modulo 2^SizeBits.                  *)
(*  - A pointer is a sequence: <<>> is NULL, <<v>> points at the value v.  *)
(*  - The values a function returns are a sequence: <<c>> is "returned c", *)
(*    <<>> is "returned nothing" (a void function, or a call that never    *)
(*    returns).                                                            *)
(*  - A quaternion is a record [w, x, y, z, d] of exact values: the        *)
(*    components are w/d .. z/d for d >= 1, and d = 0 stands for the       *)
(*    Euclidean norm of (w,x,y,z), so that [.., d |-> 0] is the exact unit *)
(*    quaternion in the direction (w,x,y,z).  NAN and INFINITY are the two *)
(*    non-finite component values.                                         *)
(***************************************************************************)
EXTENDS Integers, Sequences, FiniteSets, TLC

VARIABLES phase, key, gk, alg, enc, cont, dec

vars == <<phase, key, gk, alg, enc, cont, dec>>

(***************************************************************************)
(* Bounds of the model                                                     *)
(***************************************************************************)
\* width of size_t in the model (64 on the target); the wrap-around cases of
\* the size arithmetic are the lengths within a header size of 2^SizeBits
SizeBits == 8

\* longest plaintext whose bytes are enumerated exhaustively
MaxLen == 2

RECURSIVE Pow2(_)
Pow2(n) == IF n = 0 THEN 1 ELSE 2 * Pow2(n - 1)

SizeMod == Pow2(SizeBits)

(***************************************************************************)
(* Program constants                                                       *)
(***************************************************************************)
HC_SUCCESS == 0
HC_ERROR_NULL_PTR == -1
HC_ERROR_DIVIDE_ZERO == -2
HC_ERROR_INVALID_DATA == -3

\* sizeof(hypercomplex_header_t) on the LP64 target: magic 4, padding 4,
\* length 8, key 16, checksum 4, padding 4
HeaderSize == 40

\* 0xDEADBEEF
MAGIC == [hi |-> 57005, lo |-> 48879]

BLOCK == 16

LCG_MUL == 1103515245
LCG_INC == 12345
LCG_MASK == 65535

\* the two non-finite float values the tests feed to quaternion_is_valid
INFINITY == 1000001
NAN == 1000002

NULL == <<>>

Ptr(v) == <<v>>

Max(a, b) == IF a > b THEN a ELSE b

Abs(a) == IF a < 0 THEN -a ELSE a

(***************************************************************************)
(* Bit operations of C on unsigned values                                  *)
(***************************************************************************)
RECURSIVE Xor(_, _)
Xor(a, b) ==
    IF a = 0 THEN b
    ELSE IF b = 0 THEN a
    ELSE (((a % 2) + (b % 2)) % 2) + 2 * Xor(a \div 2, b \div 2)

\* the 32-bit value v with byte k (0 = least significant, the first in memory
\* on the little-endian target) xor-ed with mask
FlipByteU32(v, k, mask) ==
    CASE k = 0 -> [v EXCEPT !.lo = Xor(v.lo, mask)]
      [] k = 1 -> [v EXCEPT !.lo = Xor(v.lo, mask * 256)]
      [] k = 2 -> [v EXCEPT !.hi = Xor(v.hi, mask)]
      [] k = 3 -> [v EXCEPT !.hi = Xor(v.hi, mask * 256)]

(***************************************************************************)
(* Quaternions                                                             *)
(***************************************************************************)
isfinite(v) == v # NAN /\ v # INFINITY /\ v # -INFINITY

\* quaternion_init with the x and y assignments crossed
quaternion_init_Crossed(w, x, y, z) == [w |-> w, x |-> y, y |-> x, z |-> z, d |-> 1]

\* the quaternion_t that quaternion_init(q, w, x, y, z) leaves in *q
quaternion_init(w, x, y, z) == [w |-> w, x |-> x, y |-> y, z |-> z, d |-> 1]

quaternion_identity == quaternion_init(1, 0, 0, 0)

quaternion_is_valid(q) ==
    IF q = NULL THEN 0
    ELSE IF isfinite(q[1].w) /\ isfinite(q[1].x)
            /\ isfinite(q[1].y) /\ isfinite(q[1].z) THEN 1 ELSE 0

RECURSIVE Gcd(_, _)
Gcd(a, b) == IF b = 0 THEN a ELSE Gcd(b, a % b)

\* Hamilton product of the exact values a and b (both with a denominator d >= 1)
Hamilton(a, b) ==
    [w |-> a.w * b.w - a.x * b.x - a.y * b.y - a.z * b.z,
     x |-> a.w * b.x + a.x * b.w + a.y * b.z - a.z * b.y,
     y |-> a.w * b.y - a.x * b.z + a.y * b.w + a.z * b.x,
     z |-> a.w * b.z + a.x * b.y - a.y * b.x + a.z * b.w,
     d |-> a.d * b.d]

\* every quaternion_* call below yields [ret, out]: the value returned and the
\* quaternion_t the result pointer points at afterwards (old: what it held)
quaternion_multiply(q1, q2, result) ==
    IF q1 = NULL \/ q2 = NULL \/ result = NULL
    THEN [ret |-> <<HC_ERROR_NULL_PTR>>, out |-> result]
    ELSE [ret |-> <<HC_SUCCESS>>, out |-> Ptr(Hamilton(q1[1], q2[1]))]

quaternion_add(q1, q2, result) ==
    IF q1 = NULL \/ q2 = NULL \/ result = NULL
    THEN [ret |-> <<HC_ERROR_NULL_PTR>>, out |-> result]
    ELSE [ret |-> <<HC_SUCCESS>>,
          out |-> Ptr([w |-> q1[1].w * q2[1].d + q2[1].w * q1[1].d,
                       x |-> q1[1].x * q2[1].d + q2[1].x * q1[1].d,
                       y |-> q1[1].y * q2[1].d + q2[1].y * q1[1].d,
                       z |-> q1[1].z * q2[1].d + q2[1].z * q1[1].d,
                       d |-> q1[1].d * q2[1].d])]

Conjugate(a) == [a EXCEPT !.x = -a.x, !.y = -a.y, !.z = -a.z]

quaternion_conjugate(input, result) ==
    IF input = NULL \/ result = NULL
    THEN [ret |-> <<HC_ERROR_NULL_PTR>>, out |-> result]
    ELSE [ret |-> <<HC_SUCCESS>>, out |-> Ptr(Conjugate(input[1]))]

IsZero(a) == a.w = 0 /\ a.x = 0 /\ a.y = 0 /\ a.z = 0

\* a / Norm(a): the unit quaternion in the direction of a, in lowest terms
UnitOf(a) ==
    LET g == Gcd(Gcd(Abs(a.w), Abs(a.x)), Gcd(Abs(a.y), Abs(a.z)))
    IN  [w |-> a.w \div g, x |-> a.x \div g, y |-> a.y \div g, z |-> a.z \div g,
         d |-> 0]

quaternion_normalize(input, result) ==
    IF input = NULL \/ result = NULL
    THEN [ret |-> <<HC_ERROR_NULL_PTR>>, out |-> result]
    ELSE IF IsZero(input[1])
    THEN [ret |-> <<HC_ERROR_DIVIDE_ZERO>>, out |-> result]
    ELSE [ret |-> <<HC_SUCCESS>>, out |-> Ptr(UnitOf(input[1]))]

(***************************************************************************)
(* Key derivation                                                          *)
(***************************************************************************)
\* state = state * 1103515245 + 12345 on the 64-bit state, followed through
\* the 16 low bits that `state & 0xFFFF` keeps: the low 16 bits of the new
\* state depend on the low 16 bits of the old state alone
LcgStep(state) ==
    (((state % (LCG_MASK + 1)) * (LCG_MUL % (LCG_MASK + 1))) + LCG_INC) % (LCG_MASK + 1)

\* (float)(state & 0xFFFF) / 65535.0f * 2.0f - 1.0f, as the exact numerator
\* over the denominator 65535
LcgComponent(state) == 2 * (state % (LCG_MASK + 1)) - LCG_MASK

\* [ret, out, normalize_ret]: ret is what the function returns (it is void),
\* out is *key afterwards, normalize_ret is what quaternion_normalize returned
\* to it (<<>> when it was not called)
quaternion_generate_key(keyp, seed) ==
    IF keyp = NULL
    THEN [ret |-> <<>>, out |-> keyp, normalize_ret |-> <<>>]
    ELSE LET s1 == LcgStep(seed)
             s2 == LcgStep(s1)
             s3 == LcgStep(s2)
             s4 == LcgStep(s3)
             raw == [w |-> LcgComponent(s1), x |-> LcgComponent(s2),
                     y |-> LcgComponent(s3), z |-> LcgComponent(s4),
                     d |-> LCG_MASK]
             n == quaternion_normalize(Ptr(raw), Ptr(raw))
         IN  [ret |-> <<>>, out |-> n.out, normalize_ret |-> n.ret]

(***************************************************************************)
(* Checksum                                                                *)
(***************************************************************************)
\* checksum = (checksum << 1) ^ bytes[i] on a uint32_t
ChecksumStep(checksum, byte) ==
    [hi |-> ((checksum.hi * 2) % 65536) + (checksum.lo \div 32768),
     lo |-> Xor((checksum.lo * 2) % 65536, byte)]

\* the loop `for (i = from; i < to; i++) checksum = ...`, run as two half
\* loops one after the other; the test of `done` only makes the first half
\* be evaluated before the second starts, it is never false
RECURSIVE ChecksumLoop(_, _, _, _)
ChecksumLoop(bytes, from, to, checksum) ==
    IF from >= to THEN checksum
    ELSE IF to = from + 1 THEN ChecksumStep(checksum, bytes[from + 1])
    ELSE LET mid == (from + to) \div 2
             done == ChecksumLoop(bytes, from, mid, checksum)
         IN  IF done.lo >= 0 THEN ChecksumLoop(bytes, mid, to, done) ELSE done

compute_checksum(data, length) == ChecksumLoop(data, 0, length, [hi |-> 0, lo |-> 0])

(***************************************************************************)
(* The block transform                                                     *)
(***************************************************************************)
\* The packing fixed here: the key adds its vector part to the bytes, lane by
\* lane of every 4-byte group, in the sense its scalar part's sign gives.
\* Conjugate negates the vector part and keeps the scalar part, so the
\* transform under Conjugate(q) undoes the transform under q; -q acts as q,
\* and q with its scalar part negated acts as Conjugate(q), as they do in the
\* rotation v -> q v Conjugate(q).
Lane(q, l) ==
    LET s == IF q.w < 0 THEN -1 ELSE 1
    IN  CASE l = 0 -> (s * (q.x + q.y + q.z)) % 256
          [] l = 1 -> (s * q.x) % 256
          [] l = 2 -> (s * q.y) % 256
          [] l = 3 -> (s * q.z) % 256

TransformBytes(bytes, q, length) ==
    [i \in 1..Len(bytes) |->
        IF i <= length THEN (bytes[i] + Lane(q, (i - 1) % 4)) % 256 ELSE bytes[i]]

\* [ret, out]: out is the buffer `output` points at afterwards; both uses
\* in the codec pass the same buffer as input and output
hypercomplex_encrypt(input, keyp, output, length) ==
    IF input = NULL \/ keyp = NULL \/ output = NULL
    THEN [ret |-> <<HC_ERROR_NULL_PTR>>, out |-> output]
    ELSE [ret |-> <<HC_SUCCESS>>, out |-> Ptr(TransformBytes(input[1], keyp[1], length))]

(***************************************************************************)
(* Container codec                                                         *)
(***************************************************************************)
\* what an uninitialised byte holds
JunkByte == 170

JunkQ == quaternion_init(JunkByte, JunkByte, JunkByte, JunkByte)

\* a byte buffer of `size` bytes that nothing has written yet
JunkBytes(size) == [i \in 1..size |-> JunkByte]

\* a buffer of `size` bytes seen through hypercomplex_header_t: the header's
\* fields, the two runs of struct padding, and the bytes behind the header
JunkBuffer(size) ==
    [size |-> size,
     magic |-> [hi |-> JunkByte * 257, lo |-> JunkByte * 257],
     pad1 |-> JunkBytes(4),
     length |-> JunkByte,
     key |-> JunkQ,
     checksum |-> [hi |-> JunkByte * 257, lo |-> JunkByte * 257],
     pad2 |-> JunkBytes(4),
     data |-> JunkBytes(Max(size - HeaderSize, 0))]

\* the alignment without the + 15: rounds down
PaddedLength_RoundsDown(length) == (length \div BLOCK) * BLOCK

\* ((length + 15) / 16) * 16 on size_t
PaddedLength(length) == (((length + (BLOCK - 1)) % SizeMod) \div BLOCK) * BLOCK

\* header_size + padded_length on size_t
TotalSize(length) == (HeaderSize + PaddedLength(length)) % SizeMod

EncryptNullArgs(plaintext, keyp, ciphertext, cipher_length) ==
    plaintext = NULL \/ keyp = NULL \/ ciphertext = NULL \/ cipher_length = NULL

\* hypercomplex_encrypt_data(plaintext, length, key, ciphertext,
\* cipher_length) as [ret, buf, cipher_length, padded_length, total_size, oob,
\* exit]: buf and cipher_length are what the two output pointers point at
\* afterwards, exit names the return statement taken, and oob says that the
\* call wrote past the end of the ciphertext buffer, which is undefined
\* behaviour (see UB)
hypercomplex_encrypt_data(plaintext, length, keyp, ciphertext, cipher_length) ==
    IF EncryptNullArgs(plaintext, keyp, ciphertext, cipher_length)
    THEN [ret |-> <<HC_ERROR_NULL_PTR>>, buf |-> ciphertext,
          cipher_length |-> cipher_length, padded_length |-> 0, total_size |-> 0,
          oob |-> FALSE, exit |-> "null"]
    ELSE IF quaternion_is_valid(keyp) = 0
    THEN [ret |-> <<HC_ERROR_INVALID_DATA>>, buf |-> ciphertext,
          cipher_length |-> cipher_length, padded_length |-> 0, total_size |-> 0,
          oob |-> FALSE, exit |-> "key"]
    ELSE
    LET header_size == HeaderSize
        padded_length == PaddedLength(length)
        total_size == TotalSize(length)
    IN  IF cipher_length[1] < total_size
        THEN [ret |-> <<HC_ERROR_INVALID_DATA>>, buf |-> ciphertext,
              cipher_length |-> Ptr(total_size), padded_length |-> padded_length,
              total_size |-> total_size, oob |-> FALSE, exit |-> "capacity"]
        ELSE
        LET buf == ciphertext[1]
            checksum == compute_checksum(plaintext[1], length)
            copied == SubSeq(plaintext[1], 1, length)
            zeros == IF padded_length > length
                     THEN [i \in 1..(padded_length - length) |-> 0]
                     ELSE <<>>
            padded_data == copied \o zeros
            result == hypercomplex_encrypt(Ptr(padded_data), keyp, Ptr(padded_data),
                                           padded_length)
            written == result.out[1]
            room == Max(buf.size - header_size, 0)
            after == [buf EXCEPT !.magic = MAGIC, !.length = length,
                                 !.key = keyp[1], !.checksum = checksum,
                                 !.data = [i \in 1..room |->
                                             IF i <= Len(written) THEN written[i]
                                             ELSE buf.data[i]]]
        IN  [ret |-> result.ret, buf |-> Ptr(after),
             cipher_length |-> IF result.ret = <<HC_SUCCESS>>
                               THEN Ptr(total_size) ELSE cipher_length,
             padded_length |-> padded_length, total_size |-> total_size,
             oob |-> header_size + Len(written) > buf.size, exit |-> "done"]

\* the null check without `!key`
DecryptNullArgs_NoKey(ciphertext, keyp, plaintext, plain_length) ==
    ciphertext = NULL \/ plaintext = NULL \/ plain_length = NULL

DecryptNullArgs(ciphertext, keyp, plaintext, plain_length) ==
    ciphertext = NULL \/ keyp = NULL \/ plaintext = NULL \/ plain_length = NULL

\* the magic never compared
MagicOk_Unchecked(header) == TRUE

MagicOk(header) == header.magic = MAGIC

\* decode keyed by the caller's argument
DecryptKey_Caller(header, keyp) == keyp

\* the key whose conjugate decode hands to the transform
DecryptKey(header, keyp) == Ptr(header.key)

\* *plain_length set only once the checksum has been verified
ReportedLength_Verified(header, plain_length, result, mismatch) ==
    IF result = <<HC_SUCCESS>> /\ ~mismatch THEN Ptr(header.length) ELSE plain_length

\* *plain_length after the transform returned `result` and the checksum
\* comparison came out as `mismatch`
ReportedLength(header, plain_length, result, mismatch) ==
    IF result = <<HC_SUCCESS>> THEN Ptr(header.length) ELSE plain_length

\* hypercomplex_decrypt_data(ciphertext, cipher_length, key, plaintext,
\* plain_length) as [ret, buf, plain_length, reads, transforms, data_size,
\* inv_key, oob, exit]: buf and plain_length are what the two output pointers
\* point at afterwards, reads the header fields the call read, transforms the
\* number of calls of hypercomplex_encrypt, inv_key the key it was called
\* with, and oob says that the call wrote past the end of the plaintext
\* buffer, which is undefined behaviour (see UB)
hypercomplex_decrypt_data(ciphertext, cipher_length, keyp, plaintext, plain_length) ==
    LET early(ret, reads, len, exit) ==
            [ret |-> <<ret>>, buf |-> plaintext, plain_length |-> len,
             reads |-> reads, transforms |-> 0, data_size |-> 0, inv_key |-> NULL,
             oob |-> FALSE, exit |-> exit]
    IN
    IF DecryptNullArgs(ciphertext, keyp, plaintext, plain_length)
    THEN early(HC_ERROR_NULL_PTR, {}, plain_length, "null")
    ELSE IF cipher_length < HeaderSize
    THEN early(HC_ERROR_INVALID_DATA, {}, plain_length, "short")
    ELSE
    LET header == ciphertext[1]
    IN  IF ~MagicOk(header)
        THEN early(HC_ERROR_INVALID_DATA, {"magic"}, plain_length, "magic")
        ELSE IF plain_length[1] < header.length
        THEN early(HC_ERROR_INVALID_DATA, {"magic", "length"}, Ptr(header.length),
                   "capacity")
        ELSE
        LET data_size == cipher_length - HeaderSize
            encrypted_data == SubSeq(header.data, 1, data_size)
            inv == quaternion_conjugate(DecryptKey(header, keyp), Ptr(JunkQ))
            result == hypercomplex_encrypt(Ptr(encrypted_data), inv.out,
                                           Ptr(encrypted_data), data_size)
            written == result.out[1]
            old == plaintext[1]
            after == [i \in 1..Len(old) |->
                        IF i <= Len(written) THEN written[i] ELSE old[i]]
            ok == result.ret = <<HC_SUCCESS>>
            mismatch == ok /\ compute_checksum(after, header.length) # header.checksum
        IN  [ret |-> IF mismatch THEN <<HC_ERROR_INVALID_DATA>> ELSE result.ret,
             buf |-> Ptr(after),
             plain_length |-> ReportedLength(header, plain_length, result.ret, mismatch),
             reads |-> IF ok THEN {"magic", "length", "key", "checksum"}
                       ELSE {"magic", "length", "key"},
             transforms |-> 1, data_size |-> data_size, inv_key |-> inv.out,
             oob |-> data_size > Len(old),
             exit |-> IF mismatch THEN "checksum" ELSE "done"]

\* A call that wrote outside a buffer has undefined behaviour: it either goes
\* on as the code says, the bytes outside the buffer lost to the caller, or it
\* never returns.
UB(r, crash) == IF r.oob /\ crash THEN [r EXCEPT !.ret = <<>>, !.exit = "crash"] ELSE r

(***************************************************************************)
(* The caller                                                              *)
(*                                                                         *)
(* phase: how far the caller is: "idle" (no key yet), "keyed", "encoded",  *)
(*        "failed" (the encode failed), "tampered", "decoded", or          *)
(*        "undefined" after undefined behaviour                            *)
(* key:   the caller's quaternion_t                                        *)
(* alg, gk, enc, dec: the caller's latest arithmetic call, key generation, *)
(*        encode and decode, each <<>> or <<the call's arguments and what  *)
(*        it returned>>; an arithmetic call and a key generation replace   *)
(*        each other                                                       *)
(* cont:  <<>> or <<the container: its bytes, its length, the byte changed>>*)
(***************************************************************************)
\* the byte values of the exhaustively enumerated plaintexts
ByteVals == {0, 255}

\* the lengths of the longer plaintexts: around one block, beyond the 32 bits
\* of the checksum, and where the size arithmetic wraps around
LongLens == {15, 16, 17, 40, SizeMod - 3 * BLOCK + 1, SizeMod - BLOCK, SizeMod - 1}

Plaintexts ==
    UNION {[1..n -> ByteVals] : n \in 0..MaxLen}
    \cup {[i \in 1..n |-> (i * 37) % 256] : n \in LongLens}

\* the low 16 bits of the seeds (12345 is the seed of test_encryption_decryption)
Seeds == {1, 12345}

\* the basis quaternions of test_quaternion_multiplication
BasisI == quaternion_init(0, 1, 0, 0)

BasisJ == quaternion_init(0, 0, 1, 0)

BasisK == quaternion_init(0, 0, 0, 1)

\* (-q.w, -q.x, -q.y, -q.z), what the test compares j * i with
Negated(q) == [q EXCEPT !.w = -q.w, !.x = -q.x, !.y = -q.y, !.z = -q.z]

\* the operands of the arithmetic calls, as quaternion_init builds them
QVals ==
    {quaternion_identity, BasisI, BasisJ, BasisK}
    \cup {quaternion_init(t[1], t[2], t[3], t[4]) :
            t \in {<<0, 0, 0, 0>>, <<1, 2, 3, 4>>, <<5, 6, 7, 8>>, <<0, 3, 4, 0>>}}

QPtrs == {NULL} \cup {Ptr(q) : q \in QVals}

ResPtrs == {NULL, Ptr(JunkQ)}

\* the keys a caller builds by hand
HandKeys ==
    {quaternion_identity, quaternion_init(NAN, 0, 0, 0),
     quaternion_init(0, INFINITY, 0, 0)}

\* the bit patterns xor-ed into a byte of the container
Masks == {1, 128}

\* which pointer argument of a codec call is NULL
NullArgs == {"none", "data", "key", "out", "len"}

\* header_size + padded length without wrap-around: the room a container needs
Need(length) == HeaderSize + ((length + (BLOCK - 1)) \div BLOCK) * BLOCK

\* the capacities tried for a plaintext: around what it needs, and, for a
\* length whose container no size_t can count, what the code computes instead
EncCaps(length) ==
    {c \in {0, HeaderSize, Need(length) - 1, Need(length), Need(length) + BLOCK} :
        c >= 0 /\ c < SizeMod}
    \cup (IF Need(length) >= SizeMod THEN {TotalSize(length), SizeMod - 1} ELSE {})

DecCaps(length) == {c \in {length - 1, length, length + BLOCK} : c >= 0}

\* the shapes of a decode call: which argument is NULL, whether the length
\* passed is the container's, a header's alone (the payload cut off) or one
\* byte short of a header, and the capacity: around the plaintext's length,
\* or the length the header records
DecCalls(c, length) ==
    {<<"none", c.cipher_length, cap>> : cap \in DecCaps(length) \cup {c.buf.length}}
    \cup {<<"none", HeaderSize, length + BLOCK>>}
    \cup {<<"none", HeaderSize - 1, length + BLOCK>>}
    \cup {<<null, c.cipher_length, length + BLOCK>> : null \in NullArgs}

Init ==
    /\ phase = "idle"
    /\ key = JunkQ
    /\ gk = <<>>
    /\ alg = <<>>
    /\ enc = <<>>
    /\ cont = <<>>
    /\ dec = <<>>

AlgCall(op, q1, q2, result, r) ==
    /\ phase = "idle"
    /\ alg' = <<[op |-> op, q1 |-> q1, q2 |-> q2, result |-> result,
                 ret |-> r.ret, out |-> r.out]>>
    /\ gk' = <<>>
    /\ UNCHANGED <<phase, key, enc, cont, dec>>

Multiply ==
    \E q1 \in QPtrs, q2 \in QPtrs, result \in ResPtrs :
        AlgCall("multiply", q1, q2, result, quaternion_multiply(q1, q2, result))

Add ==
    \E q1 \in QPtrs, q2 \in QPtrs, result \in ResPtrs :
        AlgCall("add", q1, q2, result, quaternion_add(q1, q2, result))

ConjugateCall ==
    \E q1 \in QPtrs, result \in ResPtrs :
        AlgCall("conjugate", q1, NULL, result, quaternion_conjugate(q1, result))

Normalize ==
    \E q1 \in QPtrs, result \in ResPtrs :
        AlgCall("normalize", q1, NULL, result, quaternion_normalize(q1, result))

GenerateKey ==
    /\ phase = "idle"
    /\ \E seed \in Seeds, keyp \in {NULL, Ptr(key)} :
        LET r == quaternion_generate_key(keyp, seed)
        IN  /\ gk' = <<[seed |-> seed, keyp |-> keyp, ret |-> r.ret, out |-> r.out,
                        normalize_ret |-> r.normalize_ret]>>
            /\ key' = IF r.out = NULL THEN key ELSE r.out[1]
            /\ phase' = IF keyp = NULL THEN "idle" ELSE "keyed"
    /\ alg' = <<>>
    /\ UNCHANGED <<enc, cont, dec>>

InitKey ==
    /\ phase = "idle"
    /\ \E q \in HandKeys : key' = q
    /\ phase' = "keyed"
    /\ gk' = <<>>
    /\ alg' = <<>>
    /\ UNCHANGED <<enc, cont, dec>>

Encrypt ==
    /\ phase = "keyed"
    /\ \E p \in Plaintexts, null \in NullArgs :
       \E cap \in IF null = "none" THEN EncCaps(Len(p)) ELSE {Need(Len(p)) % SizeMod} :
        LET plaintext == IF null = "data" THEN NULL ELSE Ptr(p)
            keyp == IF null = "key" THEN NULL ELSE Ptr(key)
            ciphertext == IF null = "out" THEN NULL ELSE Ptr(JunkBuffer(cap))
            cipher_length == IF null = "len" THEN NULL ELSE Ptr(cap)
            r0 == hypercomplex_encrypt_data(plaintext, Len(p), keyp, ciphertext,
                                            cipher_length)
        IN  \E crash \in IF r0.oob THEN BOOLEAN ELSE {FALSE} :
            LET r == UB(r0, crash)
            IN  /\ enc' = <<[plaintext |-> plaintext, length |-> Len(p), keyp |-> keyp,
                             ciphertext |-> ciphertext, cipher_length |-> cipher_length,
                             r |-> r]>>
                /\ phase' = IF r.oob THEN "undefined"
                            ELSE IF r.ret = <<HC_SUCCESS>> THEN "encoded" ELSE "failed"
                /\ cont' = IF r.ret = <<HC_SUCCESS>> /\ ~r.oob
                           THEN <<[buf |-> r.buf[1], cipher_length |-> r.cipher_length[1],
                                   site |-> <<>>]>>
                           ELSE cont
    /\ UNCHANGED <<key, gk, alg, dec>>

\* the payload bytes that get changed: the first two, the last of the
\* plaintext, the first of the padding and the last of the payload
DataSites(c) ==
    {1, 2, c.buf.length, c.buf.length + 1, c.cipher_length - HeaderSize}
    \cap 1..(c.cipher_length - HeaderSize)

\* the containers that differ from c in one byte, at the site named: a byte
\* of a field xor-ed with a mask, or the sign bit of a key component flipped
Tampered(c) ==
    {[c EXCEPT !.buf.magic = FlipByteU32(c.buf.magic, k, m),
               !.site = <<"magic", k, m>>] : k \in 0..3, m \in Masks}
    \cup {[c EXCEPT !.buf.pad1[k] = Xor(c.buf.pad1[k], m),
                    !.site = <<"pad1", k, m>>] : k \in {1, 4}, m \in Masks}
    \cup {[c EXCEPT !.buf.length = Xor(c.buf.length, m),
                    !.site = <<"length", 0, m>>] : m \in Masks}
    \cup {[c EXCEPT !.buf.key.w = -c.buf.key.w,
                    !.site = <<"key.w", 3, 128>>] : m \in {0} \ {c.buf.key.w}}
    \cup {[c EXCEPT !.buf.key.x = -c.buf.key.x,
                    !.site = <<"key.x", 3, 128>>] : m \in {0} \ {c.buf.key.x}}
    \cup {[c EXCEPT !.buf.key.y = -c.buf.key.y,
                    !.site = <<"key.y", 3, 128>>] : m \in {0} \ {c.buf.key.y}}
    \cup {[c EXCEPT !.buf.key.z = -c.buf.key.z,
                    !.site = <<"key.z", 3, 128>>] : m \in {0} \ {c.buf.key.z}}
    \cup {[c EXCEPT !.buf.checksum = FlipByteU32(c.buf.checksum, k, m),
                    !.site = <<"checksum", k, m>>] : k \in 0..3, m \in Masks}
    \cup {[c EXCEPT !.buf.pad2[k] = Xor(c.buf.pad2[k], m),
                    !.site = <<"pad2", k, m>>] : k \in {1, 4}, m \in Masks}
    \cup {[c EXCEPT !.buf.data[k] = Xor(c.buf.data[k], m),
                    !.site = <<"data", k, m>>] :
            k \in DataSites(c), m \in Masks}

Tamper ==
    /\ phase = "encoded"
    /\ \E c \in Tampered(cont[1]) : cont' = <<c>>
    /\ phase' = "tampered"
    /\ UNCHANGED <<key, gk, alg, enc, dec>>

\* one decode call, and beside it the same call with another key argument
Decrypt ==
    /\ phase \in {"encoded", "tampered"}
    /\ \E call \in DecCalls(cont[1], enc[1].length) :
        LET null == call[1]
            ciphertext == IF null = "data" THEN NULL ELSE Ptr(cont[1].buf)
            plaintext == IF null = "out" THEN NULL ELSE Ptr(JunkBytes(call[3]))
            plain_length == IF null = "len" THEN NULL ELSE Ptr(call[3])
            keyp == IF null = "key" THEN NULL ELSE Ptr(key)
            key2p == IF null = "key" THEN NULL ELSE Ptr(BasisJ)
            r == hypercomplex_decrypt_data(ciphertext, call[2], keyp, plaintext,
                                           plain_length)
            r2 == hypercomplex_decrypt_data(ciphertext, call[2], key2p, plaintext,
                                            plain_length)
        IN  \E crash \in IF r.oob \/ r2.oob THEN BOOLEAN ELSE {FALSE} :
              dec' = <<[ciphertext |-> ciphertext, cipher_length |-> call[2],
                        keyp |-> keyp, key2p |-> key2p, plaintext |-> plaintext,
                        plain_length |-> plain_length,
                        r |-> UB(r, crash), r2 |-> UB(r2, crash)]>>
    /\ phase' = "decoded"
    /\ UNCHANGED <<key, gk, alg, enc, cont>>

Next ==
    \/ Multiply
    \/ Add
    \/ ConjugateCall
    \/ Normalize
    \/ GenerateKey
    \/ InitKey
    \/ Encrypt
    \/ Tamper
    \/ Decrypt

Spec == Init /\ [][Next]_vars

(***************************************************************************)
(* The claims                                                              *)
(***************************************************************************)
\* a codec call made with every pointer argument present
EncryptArgsPresent ==
    /\ enc # <<>>
    /\ ~EncryptNullArgs(enc[1].plaintext, enc[1].keyp, enc[1].ciphertext,
                        enc[1].cipher_length)

DecryptArgsPresent ==
    /\ phase = "decoded"
    /\ dec[1].ciphertext # NULL /\ dec[1].keyp # NULL /\ dec[1].key2p # NULL
    /\ dec[1].plaintext # NULL /\ dec[1].plain_length # NULL

\* a decode of the whole container into a buffer that holds its payload
DecryptWhole ==
    /\ DecryptArgsPresent
    /\ dec[1].cipher_length = cont[1].cipher_length
    /\ dec[1].plain_length[1] >= cont[1].cipher_length - HeaderSize

\* C1: a plaintext encoded with a key from quaternion_generate_key and decoded
\* from the untouched container, both with room enough, comes back: decode
\* returns HC_SUCCESS, reports the original length and yields the original
\* bytes.
C1_RoundTrip ==
    (DecryptWhole /\ gk # <<>> /\ cont[1].site = <<>>)
    => /\ dec[1].r.ret = <<HC_SUCCESS>>
       /\ dec[1].r.plain_length = Ptr(enc[1].length)
       /\ SubSeq(dec[1].r.buf[1], 1, enc[1].length) = enc[1].plaintext[1]

C1_Witness ==
    /\ DecryptWhole /\ gk # <<>> /\ cont[1].site = <<>>
    /\ enc[1].length = 17
    /\ dec[1].r.ret = <<HC_SUCCESS>>
    /\ dec[1].r.plain_length = Ptr(17)
    /\ cont[1].buf.data # enc[1].plaintext[1] \o [i \in 1..15 |-> 0]

\* C2: a container with one byte changed is never decoded with success: the
\* decode returns the integrity error (HC_ERROR_INVALID_DATA in this code).
C2_TamperDetected ==
    (DecryptWhole /\ cont[1].site # <<>>)
    => dec[1].r.ret = <<HC_ERROR_INVALID_DATA>>

\* C3: an encode with a valid key and a capacity below header size + padded
\* length fails with HC_ERROR_INVALID_DATA, stores exactly header size +
\* padded length in *cipher_length and leaves the ciphertext buffer as it was.
C3_CapacityCheck ==
    (/\ EncryptArgsPresent
     /\ quaternion_is_valid(enc[1].keyp) = 1
     /\ enc[1].cipher_length[1] < Need(enc[1].length))
    => /\ enc[1].r.ret = <<HC_ERROR_INVALID_DATA>>
       /\ enc[1].r.cipher_length = Ptr(Need(enc[1].length))
       /\ enc[1].r.buf = enc[1].ciphertext

\* C4: a decode of fewer bytes than a header, or of a container whose magic
\* is not 0xDEADBEEF, returns HC_ERROR_INVALID_DATA having read no header
\* field but the magic (not even that when too short), called the transform
\* never, and left the plaintext buffer and *plain_length as they were.
C4_MalformedRejected ==
    (/\ DecryptArgsPresent
     /\ \/ dec[1].cipher_length < HeaderSize
        \/ dec[1].ciphertext[1].magic # MAGIC)
    => /\ dec[1].r.ret = <<HC_ERROR_INVALID_DATA>>
       /\ dec[1].r.reads \subseteq {"magic"}
       /\ (dec[1].cipher_length < HeaderSize => dec[1].r.reads = {})
       /\ dec[1].r.transforms = 0
       /\ dec[1].r.buf = dec[1].plaintext
       /\ dec[1].r.plain_length = dec[1].plain_length

C4_Witness ==
    /\ DecryptArgsPresent
    /\ dec[1].cipher_length >= HeaderSize
    /\ dec[1].ciphertext[1].magic # MAGIC
    /\ dec[1].r.ret = <<HC_ERROR_INVALID_DATA>>
    /\ dec[1].r.reads = {"magic"}

\* C5: two decodes of one container that differ in the key argument alone
\* return the same status, the same *plain_length and the same plaintext
\* bytes, and each runs the transform with the conjugate of the header's key.
C5_KeyedByHeader ==
    DecryptArgsPresent
    => /\ dec[1].r.ret = dec[1].r2.ret
       /\ dec[1].r.plain_length = dec[1].r2.plain_length
       /\ dec[1].r.buf = dec[1].r2.buf
       /\ dec[1].r.transforms = dec[1].r2.transforms
       /\ dec[1].r.transforms = 1 =>
            /\ dec[1].r.inv_key = Ptr(Conjugate(dec[1].ciphertext[1].key))
            /\ dec[1].r2.inv_key = Ptr(Conjugate(dec[1].ciphertext[1].key))

C5_Witness ==
    /\ DecryptArgsPresent
    /\ dec[1].keyp # dec[1].key2p
    /\ dec[1].ciphertext[1].key # dec[1].key2p[1]
    /\ dec[1].r.transforms = 1
    /\ dec[1].r.ret = <<HC_SUCCESS>>
    /\ dec[1].r2.ret = <<HC_SUCCESS>>
    /\ dec[1].r.buf # dec[1].plaintext

\* C6: when the checksum of the recovered bytes disagrees with the header's,
\* decode returns HC_ERROR_INVALID_DATA, never success, and *plain_length
\* holds the header's recorded length.
C6_MismatchReported ==
    (/\ DecryptArgsPresent
     /\ dec[1].r.transforms = 1
     /\ dec[1].r.ret # <<>>
     /\ compute_checksum(dec[1].r.buf[1], dec[1].ciphertext[1].length)
            # dec[1].ciphertext[1].checksum)
    => /\ dec[1].r.ret = <<HC_ERROR_INVALID_DATA>>
       /\ dec[1].r.plain_length = Ptr(dec[1].ciphertext[1].length)

C6_Witness ==
    /\ DecryptArgsPresent
    /\ dec[1].r.transforms = 1
    /\ compute_checksum(dec[1].r.buf[1], dec[1].ciphertext[1].length)
            # dec[1].ciphertext[1].checksum
    /\ dec[1].r.ret = <<HC_ERROR_INVALID_DATA>>
    /\ dec[1].plain_length # Ptr(dec[1].ciphertext[1].length)
    /\ dec[1].r.plain_length = Ptr(dec[1].ciphertext[1].length)

\* C7: a call of quaternion_multiply, quaternion_add, quaternion_conjugate,
\* quaternion_normalize, hypercomplex_encrypt_data or
\* hypercomplex_decrypt_data with a NULL pointer argument returns
\* HC_ERROR_NULL_PTR and writes through none of its output pointers.
C7_NullArguments ==
    /\ (/\ alg # <<>>
        /\ \/ alg[1].q1 = NULL
           \/ alg[1].result = NULL
           \/ (alg[1].op \in {"multiply", "add"} /\ alg[1].q2 = NULL))
       => (alg[1].ret = <<HC_ERROR_NULL_PTR>> /\ alg[1].out = alg[1].result)
    /\ (enc # <<>> /\ ~EncryptArgsPresent)
       => /\ enc[1].r.ret = <<HC_ERROR_NULL_PTR>>
          /\ enc[1].r.buf = enc[1].ciphertext
          /\ enc[1].r.cipher_length = enc[1].cipher_length
    /\ (phase = "decoded" /\ ~DecryptArgsPresent)
       => /\ dec[1].r.ret = <<HC_ERROR_NULL_PTR>>
          /\ dec[1].r.buf = dec[1].plaintext
          /\ dec[1].r.plain_length = dec[1].plain_length

C7_Witness ==
    /\ phase = "decoded"
    /\ dec[1].keyp = NULL
    /\ dec[1].ciphertext # NULL /\ dec[1].plaintext # NULL /\ dec[1].plain_length # NULL
    /\ dec[1].r.ret = <<HC_ERROR_NULL_PTR>>
    /\ dec[1].r.buf = dec[1].plaintext

\* what quaternion_multiply(&a, &b, &result) has to give for the product c
ProductIs(a, b, c) ==
    (alg[1].q1 = Ptr(a) /\ alg[1].q2 = Ptr(b))
    => (alg[1].ret = <<HC_SUCCESS>> /\ alg[1].out = Ptr(c))

\* C8: quaternion_multiply gives the six basis products i*j = k, j*i = -k,
\* j*k = i, k*j = -i, k*i = j, i*k = -j, each with HC_SUCCESS; so it is not
\* commutative.
C8_BasisIdentities ==
    (alg # <<>> /\ alg[1].op = "multiply" /\ alg[1].result # NULL)
    => /\ ProductIs(BasisI, BasisJ, BasisK)
       /\ ProductIs(BasisJ, BasisI, Negated(BasisK))
       /\ ProductIs(BasisJ, BasisK, BasisI)
       /\ ProductIs(BasisK, BasisJ, Negated(BasisI))
       /\ ProductIs(BasisK, BasisI, BasisJ)
       /\ ProductIs(BasisI, BasisK, Negated(BasisJ))

C8_Witness ==
    /\ alg # <<>> /\ alg[1].op = "multiply"
    /\ alg[1].q1 = Ptr(BasisJ) /\ alg[1].q2 = Ptr(BasisI)
    /\ alg[1].out = Ptr(quaternion_init(0, 0, 0, -1))
    /\ alg[1].out # Ptr(BasisK)

\* C9: quaternion_generate_key hands the status of its quaternion_normalize
\* call, HC_ERROR_DIVIDE_ZERO included, back to its caller.
C9_KeyGenerationFallible ==
    (gk # <<>> /\ gk[1].keyp # NULL) => gk[1].ret = gk[1].normalize_ret

\* C10: after a successful hypercomplex_encrypt_data the padded length is the
\* smallest multiple of 16 that is at least the length, *cipher_length is
\* header size + padded length, and neither length + 15 nor header size +
\* padded length wrapped around.
C10_ContainerSize ==
    (EncryptArgsPresent /\ enc[1].r.ret = <<HC_SUCCESS>>)
    => /\ enc[1].r.padded_length % BLOCK = 0
       /\ enc[1].r.padded_length >= enc[1].length
       /\ enc[1].r.padded_length - enc[1].length < BLOCK
       /\ enc[1].r.cipher_length = Ptr(HeaderSize + enc[1].r.padded_length)
       /\ enc[1].length + (BLOCK - 1) < SizeMod
       /\ HeaderSize + enc[1].r.padded_length < SizeMod

\* C11: a decode writes no more bytes into the plaintext buffer than the
\* capacity passed in *plain_length: the bytes it copies and transforms there,
\* cipher_length - sizeof(hypercomplex_header_t) of them, fit the capacity, and
\* no byte is written past the end of the buffer.
C11_DecodeWithinCapacity ==
    DecryptArgsPresent
    => /\ dec[1].r.data_size <= dec[1].plain_length[1]
       /\ ~dec[1].r.oob

\* C12: a decode that gets past the header checks (length of the input,
\* magic, capacity) has found a recorded length that is at most the payload
\* size, cipher_length - sizeof(hypercomplex_header_t), so the bytes it
\* reports and checksums all came from the container.
C12_LengthWithinPayload ==
    (DecryptArgsPresent /\ dec[1].r.transforms = 1)
    => dec[1].ciphertext[1].length <= dec[1].r.data_size


====
